---- MODULE Spec2Model ----
(***************************************************************************)
(* Actor-critic CartPole notebook (cartpole_solution.ipynb): the episode   *)
(* runner, the return calculator, the training step and the driver loop.   *)
(*                                                                         *)
(* Real-valued quantities (gamma, the discounted sums, the running mean)   *)
(* are exact rationals [num, den] in lowest terms; float32 rounding is not *)
(* modelled.  The network weights are abstracted to the number of          *)
(* optimizer updates they have received, and values that the notebook      *)
(* computes with transcendental functions (softmax, log, Huber, standard   *)
(* deviation) are kept symbolically as the inputs they are computed from.  *)
(***************************************************************************)
EXTENDS Integers, Sequences, FiniteSets

\* The notebook's settings, scaled down from 100, 10000, 1000 and 195.
min_episodes_criterion == 2
max_episodes == 4
max_steps_per_episode == 3
reward_threshold == 1

\* The rewards the simulator may return for one step (CartPole returns 1).
StepRewards == {0, 1}

\* get_expected_return on its own: rewards of at most MaxRewardsLen entries,
\* each in 0..MaxReturnReward.
MaxRewardsLen == 3
MaxReturnReward == 2

VARIABLES
  pc,               \* position of the notebook's control
  i,                \* loop variable of the driver loop (-1: not yet bound)
  env,              \* simulator: "unreset", "ready", "running", "done"
  elapsed_steps,    \* simulator: steps taken since its last reset
  resets,           \* simulator: number of resets so far
  t,                \* loop variable of run_episode
  done,             \* done flag returned by the last simulator step
  action_probs,     \* TensorArray of run_episode
  values,           \* TensorArray of run_episode
  rewards,          \* TensorArray of run_episode
  gamma,            \* discount factor
  returns,          \* result of get_expected_return
  loss,             \* result of compute_loss
  trainable_variables, \* model parameters: number of updates applied
  episode_reward,   \* result of train_step
  episodes_reward,  \* deque(maxlen = min_episodes_criterion)
  running_reward,   \* statistics.mean(episodes_reward)
  history,          \* every value train_step has returned, in order
  output            \* what the final print has written

vars == <<pc, i, env, elapsed_steps, resets, t, done, action_probs, values,
          rewards, gamma, returns, loss, trainable_variables, episode_reward,
          episodes_reward, running_reward, history, output>>

\* ------------------------------ rationals -------------------------------
\* A real number is a fraction [num, den] with den > 0, not reduced.
Rat(n, d) == [num |-> n, den |-> d]

RatAdd(a, b) == Rat(a.num * b.den + b.num * a.den, a.den * b.den)

RatMul(a, b) == Rat(a.num * b.num, a.den * b.den)

RatGT(a, n) == a.num > n * a.den

RECURSIVE SumSeq(_)
SumSeq(s) == IF s = <<>> THEN 0 ELSE Head(s) + SumSeq(Tail(s))

Reverse(s) == [j \in 1..Len(s) |-> s[Len(s) + 1 - j]]

\* ------------------------- get_expected_return --------------------------
\* discounted_sum = reward + gamma * discounted_sum
Discount(reward, g, discounted_sum) ==
  RatAdd(Rat(reward, 1), RatMul(g, discounted_sum))

\* The loop of get_expected_return over the reversed rewards:
\* discounted_sum[k] is the running sum after the k-th iteration (0.0 before
\* the first), and iteration k writes it at position k of the TensorArray.
\* (The previous sum is bound as the element of a singleton set so that it
\* is evaluated once.)
ScanReturns(rev, g) ==
  LET discounted_sum[k \in 0..Len(rev)] ==
        IF k = 0 THEN Rat(0, 1)
        ELSE CHOOSE s \in {Discount(rev[k], g, previous) :
                             previous \in {discounted_sum[k - 1]}} : TRUE
  IN  [k \in 1..Len(rev) |-> discounted_sum[k]]

get_expected_return_NoReverse(rs, g, standardize) ==
  [raw |-> ScanReturns(Reverse(rs), g),
   standardize |-> standardize]

\* raw: the discounted sums in the order of the rewards; standardize: whether
\* (raw - mean(raw)) / (std(raw) + eps) has been applied to them.
get_expected_return(rs, g, standardize) ==
  [raw |-> Reverse(ScanReturns(Reverse(rs), g)),
   standardize |-> standardize]

\* ------------------------------ the deque -------------------------------
deque_append_DropNewest(d, x, maxlen) ==
  IF Len(d) = maxlen THEN SubSeq(d, 1, maxlen - 1) \o <<x>> ELSE Append(d, x)

deque_append(d, x, maxlen) ==
  IF Len(d) = maxlen THEN Tail(d) \o <<x>> ELSE Append(d, x)

statistics_mean(d) == Rat(SumSeq(d), Len(d))

\* The early-stop test of the driver loop.
StopCondition_NoMinimum ==
  RatGT(running_reward, reward_threshold)

StopCondition ==
  RatGT(running_reward, reward_threshold) /\ i >= min_episodes_criterion

\* ------------------------------- Init -----------------------------------
NoReturns == [raw |-> <<>>, standardize |-> FALSE]
NoLoss == [action_probs |-> <<>>, values |-> <<>>, returns |-> NoReturns]

Init ==
  /\ pc = "for"
  /\ i = -1
  /\ env = "unreset"
  /\ elapsed_steps = 0
  /\ resets = 0
  /\ t = 0
  /\ done = FALSE
  /\ action_probs = <<>>
  /\ values = <<>>
  /\ rewards = <<>>
  /\ gamma = Rat(99, 100)
  /\ returns = NoReturns
  /\ loss = NoLoss
  /\ trainable_variables = 0
  /\ episode_reward = 0
  /\ episodes_reward = <<>>
  /\ running_reward = Rat(0, 1)
  /\ history = <<>>
  /\ output = <<>>

\* --------------------------- the driver loop ----------------------------
\* for i in t: the next index of trange(max_episodes), or the end of the loop
ForNext_OneTooMany ==
  /\ pc = "for"
  /\ IF i + 1 <= max_episodes
       THEN i' = i + 1 /\ pc' = "reset"
       ELSE i' = i /\ pc' = "print"
  /\ UNCHANGED <<elapsed_steps, resets>>
  /\ UNCHANGED <<env, t, done, action_probs, values, rewards, gamma, returns,
                 loss, trainable_variables, episode_reward, episodes_reward,
                 running_reward, history, output>>

ForNext ==
  /\ pc = "for"
  /\ IF i + 1 < max_episodes
       THEN i' = i + 1 /\ pc' = "reset"
       ELSE i' = i /\ pc' = "print"
  /\ UNCHANGED <<elapsed_steps, resets>>
  /\ UNCHANGED <<env, t, done, action_probs, values, rewards, gamma, returns,
                 loss, trainable_variables, episode_reward, episodes_reward,
                 running_reward, history, output>>

\* initial_state = tf.constant(env.reset(), ...)
Reset ==
  /\ pc = "reset"
  /\ env' = "ready"
  /\ elapsed_steps' = 0
  /\ resets' = resets + 1
  /\ pc' = "train_step"
  /\ UNCHANGED <<i, t, done, action_probs, values, rewards, gamma, returns,
                 loss, trainable_variables, episode_reward, episodes_reward,
                 running_reward, history, output>>

RunEpisodeBegin_ResetsAgain ==
  /\ pc = "train_step"
  /\ action_probs' = <<>>
  /\ values' = <<>>
  /\ rewards' = <<>>
  /\ t' = 0
  /\ env' = "ready"
  /\ elapsed_steps' = 0
  /\ resets' = resets + 1
  /\ pc' = IF max_steps_per_episode > 0 THEN "run_episode"
                                        ELSE "get_expected_return"
  /\ UNCHANGED <<i, done, gamma, returns, loss, trainable_variables,
                 episode_reward, episodes_reward, running_reward, history,
                 output>>

\* train_step enters run_episode: fresh TensorArrays, loop over tf.range
RunEpisodeBegin ==
  /\ pc = "train_step"
  /\ action_probs' = <<>>
  /\ values' = <<>>
  /\ rewards' = <<>>
  /\ t' = 0
  /\ pc' = IF max_steps_per_episode > 0 THEN "run_episode"
                                        ELSE "get_expected_return"
  /\ UNCHANGED <<elapsed_steps, resets>>
  /\ UNCHANGED <<i, env, done, gamma, returns, loss, trainable_variables,
                 episode_reward, episodes_reward, running_reward, history,
                 output>>

\* One iteration of the loop of run_episode with the simulator's answer
\* (reward, d): the model is evaluated with the current parameters, the
\* simulator is stepped, the three records are written, done breaks.
RunEpisodeIteration_NoBreak(reward, d) ==
  /\ pc = "run_episode"
  /\ values' = Append(values, trainable_variables)
  /\ action_probs' = Append(action_probs, trainable_variables)
  /\ env' = IF d THEN "done" ELSE "running"
  /\ elapsed_steps' = elapsed_steps + 1
  /\ done' = d
  /\ rewards' = Append(rewards, reward)
  /\ IF t + 1 < max_steps_per_episode
       THEN t' = t + 1 /\ pc' = "run_episode"
       ELSE t' = t /\ pc' = "get_expected_return"
  /\ UNCHANGED resets
  /\ UNCHANGED <<i, gamma, returns, loss, trainable_variables, episode_reward,
                 episodes_reward, running_reward, history, output>>

RunEpisodeIteration(reward, d) ==
  /\ pc = "run_episode"
  /\ values' = Append(values, trainable_variables)
  /\ action_probs' = Append(action_probs, trainable_variables)
  /\ env' = IF d THEN "done" ELSE "running"
  /\ elapsed_steps' = elapsed_steps + 1
  /\ done' = d
  /\ rewards' = Append(rewards, reward)
  /\ IF d
       THEN t' = t /\ pc' = "get_expected_return"
       ELSE IF t + 1 < max_steps_per_episode
              THEN t' = t + 1 /\ pc' = "run_episode"
              ELSE t' = t /\ pc' = "get_expected_return"
  /\ UNCHANGED resets
  /\ UNCHANGED <<i, gamma, returns, loss, trainable_variables, episode_reward,
                 episodes_reward, running_reward, history, output>>

RunEpisodeStep ==
  \E reward \in StepRewards, d \in BOOLEAN : RunEpisodeIteration(reward, d)

\* returns = get_expected_return(rewards, gamma)
GetExpectedReturn_SkipsLoss ==
  /\ pc = "get_expected_return"
  /\ returns' = get_expected_return(rewards, gamma, TRUE)
  /\ pc' = IF Len(rewards) = 1 THEN "apply_gradients" ELSE "compute_loss"
  /\ UNCHANGED <<elapsed_steps, resets>>
  /\ UNCHANGED <<i, env, t, done, action_probs, values, rewards, gamma, loss,
                 trainable_variables, episode_reward, episodes_reward,
                 running_reward, history, output>>

GetExpectedReturn ==
  /\ pc = "get_expected_return"
  /\ returns' = get_expected_return(rewards, gamma, TRUE)
  /\ pc' = "compute_loss"
  /\ UNCHANGED <<elapsed_steps, resets>>
  /\ UNCHANGED <<i, env, t, done, action_probs, values, rewards, gamma, loss,
                 trainable_variables, episode_reward, episodes_reward,
                 running_reward, history, output>>

\* loss = compute_loss(action_probs, values, returns)
ComputeLoss_TouchesParameters ==
  /\ pc = "compute_loss"
  /\ loss' = [action_probs |-> action_probs, values |-> values,
              returns |-> returns]
  /\ trainable_variables' = trainable_variables + 1
  /\ pc' = "apply_gradients"
  /\ UNCHANGED <<elapsed_steps, resets>>
  /\ UNCHANGED <<i, env, t, done, action_probs, values, rewards, gamma,
                 returns, episode_reward, episodes_reward,
                 running_reward, history, output>>

ComputeLoss ==
  /\ pc = "compute_loss"
  /\ loss' = [action_probs |-> action_probs, values |-> values,
              returns |-> returns]
  /\ pc' = "apply_gradients"
  /\ UNCHANGED <<elapsed_steps, resets>>
  /\ UNCHANGED <<i, env, t, done, action_probs, values, rewards, gamma,
                 returns, trainable_variables, episode_reward, episodes_reward,
                 running_reward, history, output>>

\* tape.gradient, optimizer.apply_gradients, and the returned reduce_sum
ApplyGradients ==
  /\ pc = "apply_gradients"
  /\ trainable_variables' = trainable_variables + 1
  /\ episode_reward' = SumSeq(rewards)
  /\ pc' = "append"
  /\ UNCHANGED <<elapsed_steps, resets>>
  /\ UNCHANGED <<i, env, t, done, action_probs, values, rewards, gamma,
                 returns, loss, episodes_reward, running_reward, history,
                 output>>

\* episodes_reward.append(episode_reward); running_reward = mean(...)
AppendReward ==
  /\ pc = "append"
  /\ episodes_reward' =
       deque_append(episodes_reward, episode_reward, min_episodes_criterion)
  /\ running_reward' = statistics_mean(episodes_reward')
  /\ history' = Append(history, episode_reward)
  /\ pc' = "check"
  /\ UNCHANGED <<elapsed_steps, resets>>
  /\ UNCHANGED <<i, env, t, done, action_probs, values, rewards, gamma,
                 returns, loss, trainable_variables, episode_reward, output>>

\* if running_reward > reward_threshold and i >= min_episodes_criterion: break
Check ==
  /\ pc = "check"
  /\ pc' = IF StopCondition THEN "print" ELSE "for"
  /\ UNCHANGED <<elapsed_steps, resets>>
  /\ UNCHANGED <<i, env, t, done, action_probs, values, rewards, gamma,
                 returns, loss, trainable_variables, episode_reward,
                 episodes_reward, running_reward, history, output>>

\* print(f'\nSolved at episode {i}: average reward: {running_reward:.2f}!')
Report_TellsExhaustion ==
  /\ pc = "print"
  /\ output' = Append(output,
                 [text |-> IF StopCondition THEN "Solved at episode"
                                            ELSE "Not solved after episode",
                  episode |-> i, average_reward |-> running_reward])
  /\ pc' = "done"
  /\ UNCHANGED <<elapsed_steps, resets>>
  /\ UNCHANGED <<i, env, t, done, action_probs, values, rewards, gamma,
                 returns, loss, trainable_variables, episode_reward,
                 episodes_reward, running_reward, history>>

Report ==
  /\ pc = "print"
  /\ output' = Append(output,
                 [text |-> "Solved at episode",
                  episode |-> i, average_reward |-> running_reward])
  /\ pc' = "done"
  /\ UNCHANGED <<elapsed_steps, resets>>
  /\ UNCHANGED <<i, env, t, done, action_probs, values, rewards, gamma,
                 returns, loss, trainable_variables, episode_reward,
                 episodes_reward, running_reward, history>>

Next ==
  \/ ForNext
  \/ Reset
  \/ RunEpisodeBegin
  \/ RunEpisodeStep
  \/ GetExpectedReturn
  \/ ComputeLoss
  \/ ApplyGradients
  \/ AppendReward
  \/ Check
  \/ Report

Spec == Init /\ [][Next]_vars

\* The notebook runs its cells to the end without being suspended.
FairSpec == Spec /\ WF_vars(Next)

\* ------------------ get_expected_return on its own ----------------------
Gammas == {Rat(1, 2), Rat(1, 1), Rat(99, 100)}

RewardSeqs == UNION {[1..n -> 0..MaxReturnReward] : n \in 0..MaxRewardsLen}

InitReturns ==
  /\ pc = "call"
  /\ i = -1
  /\ env = "unreset"
  /\ elapsed_steps = 0
  /\ resets = 0
  /\ t = 0
  /\ done = FALSE
  /\ action_probs = <<>>
  /\ values = <<>>
  /\ rewards \in RewardSeqs
  /\ gamma \in Gammas
  /\ returns = NoReturns
  /\ loss = NoLoss
  /\ trainable_variables = 0
  /\ episode_reward = 0
  /\ episodes_reward = <<>>
  /\ running_reward = Rat(0, 1)
  /\ history = <<>>
  /\ output = <<>>

\* get_expected_return(rewards, gamma, standardize=False)
CallGetExpectedReturn ==
  /\ pc = "call"
  /\ returns' = get_expected_return(rewards, gamma, FALSE)
  /\ pc' = "returned"
  /\ UNCHANGED <<elapsed_steps, resets>>
  /\ UNCHANGED <<i, env, t, done, action_probs, values, rewards, gamma, loss,
                 trainable_variables, episode_reward, episodes_reward,
                 running_reward, history, output>>

NextReturns == CallGetExpectedReturn

SpecReturns == InitReturns /\ [][NextReturns]_vars

\* ------------------------------ properties ------------------------------
AfterRunEpisode ==
  pc \in {"get_expected_return", "compute_loss", "apply_gradients"}

AfterTrainStep == pc \in {"append", "check", "for", "print", "done"}

Min(a, b) == IF a < b THEN a ELSE b

LastN(s, n) == SubSeq(s, Len(s) - Min(Len(s), n) + 1, Len(s))

RECURSIVE GCD(_, _)
GCD(a, b) == IF b = 0 THEN a ELSE GCD(b, a % b)

\* the fraction in lowest terms
Reduced(a) ==
  LET g == GCD(IF a.num < 0 THEN -a.num ELSE a.num, a.den)
  IN  Rat(a.num \div g, a.den \div g)

\* a + b over the least common denominator, in lowest terms
ReducedSum(a, b) ==
  LET l == (a.den \div GCD(a.den, b.den)) * b.den
  IN  Reduced(Rat(a.num * (l \div a.den) + b.num * (l \div b.den), l))

\* g^e * r, in lowest terms
RECURSIVE Discounted(_, _, _)
Discounted(g, e, r) ==
  IF e = 0 THEN Rat(r, 1) ELSE Reduced(RatMul(g, Discounted(g, e - 1, r)))

\* sum over k = from..Len(rs) of g^(k - from) * rs[k], term by term
RECURSIVE DiscountedTail(_, _, _, _)
DiscountedTail(rs, g, from, k) ==
  IF k > Len(rs) THEN Rat(0, 1)
  ELSE ReducedSum(Discounted(g, k - from, rs[k]),
                  DiscountedTail(rs, g, from, k + 1))

\* C1 (as stated): at the early-stop test the loop is left exactly when the
\* running mean is strictly above reward_threshold and at least
\* min_episodes_criterion episodes have been run (the episode just finished,
\* index i, being the (i+1)-th).
C1_StopsExactlyWhenBothHold ==
  [][pc = "check" =>
       ((pc' = "print") <=>
          (RatGT(running_reward, reward_threshold)
             /\ i + 1 >= min_episodes_criterion))]_vars

\* C2: the trace of run_episode never has more than max_steps entries, its
\* three sequences have the same length, no iteration follows a step that
\* returned done, a trace ended by done ends with the done step, and a trace
\* without done has exactly max_steps entries.
C2_TraceLength ==
  /\ Len(rewards) <= max_steps_per_episode
  /\ Len(action_probs) = Len(rewards)
  /\ Len(values) = Len(rewards)
  /\ pc = "run_episode" => env # "done" /\ Len(rewards) = t
  /\ AfterRunEpisode =>
       /\ Len(rewards) = t + 1
       /\ ~done => Len(rewards) = max_steps_per_episode
       /\ done <=> env = "done"

C2_Witness ==
  /\ pc = "get_expected_return"
  /\ done
  /\ Len(rewards) < max_steps_per_episode

\* C3: the window holds at most min_episodes_criterion entries, and they are
\* the rewards of the most recent episodes, oldest first.
C3_WindowIsLastN ==
  /\ Len(episodes_reward) <= min_episodes_criterion
  /\ episodes_reward = LastN(history, min_episodes_criterion)

C3_Witness ==
  /\ pc = "check"
  /\ Len(history) = min_episodes_criterion + 1
  /\ history[1] # history[2]
  /\ episodes_reward = Tail(history)

\* C4: get_expected_return with standardize=False returns, in the order of
\* the rewards, at each position the discounted sum of the rewards from that
\* position on; the last entry is the last reward; [1,1,1] gives [3,2,1]
\* with gamma 1 and [1.75, 1.5, 1.0] with gamma 0.5.
C4_DiscountedReturns ==
  pc = "returned" =>
    /\ ~returns.standardize
    /\ Len(returns.raw) = Len(rewards)
    /\ \A k \in 1..Len(rewards) :
         Reduced(returns.raw[k]) = DiscountedTail(rewards, gamma, k, k)
    /\ rewards # <<>> =>
         Reduced(returns.raw[Len(rewards)]) = Rat(rewards[Len(rewards)], 1)
    /\ rewards = <<1, 1, 1>> /\ gamma = Rat(1, 1) =>
         [k \in 1..3 |-> Reduced(returns.raw[k])]
           = <<Rat(3, 1), Rat(2, 1), Rat(1, 1)>>
    /\ rewards = <<1, 1, 1>> /\ gamma = Rat(1, 2) =>
         [k \in 1..3 |-> Reduced(returns.raw[k])]
           = <<Rat(7, 4), Rat(3, 2), Rat(1, 1)>>

C4_Witness ==
  /\ pc = "returned"
  /\ rewards = <<1, 1, 1>>
  /\ gamma = Rat(1, 2)
  /\ Reduced(returns.raw[1]) = Rat(7, 4)
  /\ Reduced(returns.raw[2]) = Rat(3, 2)
  /\ Reduced(returns.raw[3]) = Rat(1, 1)

\* C5: within train_step control moves only from episode collection to
\* return computation to loss computation to gradient application and then
\* out of the call; no phase is entered from anywhere else.
C5_PhaseOrder ==
  [][/\ pc = "train_step" => pc' \in {"run_episode", "get_expected_return"}
     /\ pc = "run_episode" => pc' \in {"run_episode", "get_expected_return"}
     /\ pc = "get_expected_return" => pc' = "compute_loss"
     /\ pc = "compute_loss" => pc' = "apply_gradients"
     /\ pc = "apply_gradients" => pc' = "append"
     /\ pc' = "train_step" => pc = "reset"
     /\ pc' = "run_episode" => pc \in {"train_step", "run_episode"}
     /\ pc' = "get_expected_return" => pc \in {"train_step", "run_episode"}
     /\ pc' = "compute_loss" => pc = "get_expected_return"
     /\ pc' = "apply_gradients" => pc = "compute_loss"
     /\ pc' = "append" => pc = "apply_gradients"]_vars

C5_Witness ==
  /\ pc = "append"
  /\ Len(rewards) = 1
  /\ loss.returns = returns
  /\ returns.standardize

\* C6: the loop ends; it never runs an episode beyond index max_episodes - 1,
\* train_step has returned exactly once for each episode begun, and no
\* episode takes more than max_steps_per_episode simulator steps.
C6_Terminates ==
  /\ <>(pc = "done")
  /\ [](/\ i < max_episodes
        /\ Len(history) = IF AfterTrainStep /\ pc # "append" THEN i + 1 ELSE i
        /\ elapsed_steps <= max_steps_per_episode)

C6_Witness ==
  /\ pc = "done"
  /\ ~StopCondition
  /\ Len(history) = max_episodes

\* C7: the final report is the 'Solved at episode' message, whether the loop
\* was left by the early stop or by running out of episodes.
C7_SameReport ==
  pc = "done" =>
    /\ Len(output) = 1
    /\ output[1].text = "Solved at episode"
    /\ output[1].episode = i
    /\ output[1].average_reward = running_reward

C7_Witness ==
  /\ pc = "done"
  /\ i = max_episodes - 1
  /\ ~RatGT(running_reward, reward_threshold)
  /\ output[1].text = "Solved at episode"

\* C8: the parameters change only in the gradient application, by one
\* update; every record of an episode was computed with the same parameters;
\* after k training steps exactly k updates have been applied.
C8_OnlyGradientApplication ==
  /\ [][trainable_variables' # trainable_variables =>
          pc = "apply_gradients"
            /\ trainable_variables' = trainable_variables + 1]_vars
  /\ [](/\ trainable_variables = IF AfterTrainStep THEN i + 1 ELSE i
        /\ pc = "run_episode" \/ AfterRunEpisode =>
             \A k \in 1..Len(values) :
               values[k] = trainable_variables
                 /\ action_probs[k] = trainable_variables)

C8_Witness ==
  /\ pc = "check"
  /\ i = 1
  /\ trainable_variables = 2
  /\ Len(values) > 1

\* C9: when the early-stop test leaves the loop the window is full and the
\* running mean is the mean of the last min_episodes_criterion episodes.
C9_StopsOnFullWindow ==
  [][pc = "check" /\ pc' = "print" =>
       /\ Len(episodes_reward) = min_episodes_criterion
       /\ Len(history) >= min_episodes_criterion
       /\ running_reward =
            statistics_mean(LastN(history, min_episodes_criterion))]_vars

C9_Witness ==
  /\ pc = "print"
  /\ RatGT(running_reward, reward_threshold)
  /\ i >= min_episodes_criterion
  /\ Len(episodes_reward) = min_episodes_criterion

\* C10: the simulator is reset once before the first step of each episode,
\* is never stepped before a reset or after done without a reset in between,
\* and has taken as many steps in an episode as the trace has entries.
C10_SimulatorProtocol ==
  /\ [][/\ Len(rewards') = Len(rewards) + 1 => env \in {"ready", "running"}
        /\ Len(rewards') = 1 /\ rewards = <<>> => env = "ready"
        /\ resets' # resets =>
             resets' = resets + 1 /\ pc = "reset" /\ env # "ready"]_vars
  /\ [](/\ resets = IF pc = "reset" THEN i ELSE i + 1
        /\ pc = "run_episode" \/ AfterRunEpisode =>
             elapsed_steps = Len(rewards))

C10_Witness ==
  /\ pc = "train_step"
  /\ env = "ready"
  /\ i = 1
  /\ resets = 2
  /\ Len(rewards) = max_steps_per_episode
  /\ ~done

====
